---- MODULE Spec2Model ----
(***************************************************************************)
(* Model of the Nifty 100 index tracker: batch price resolution            *)
(* (src/services/price_fetcher.py), equal-weight allocation                *)
(* (src/services/allocator.py) and the data they work on                   *)
(* (src/models/security.py, src/models/portfolio.py), as driven by         *)
(* Nifty100Tracker.run (src/main.py).                                      *)
(*                                                                         *)
(* Python floats are binary floating point numbers: every arithmetic       *)
(* result is the exact result rounded to the nearest representable value,  *)
(* ties to even.  The model keeps that arithmetic and narrows only the     *)
(* significand, from 53 bits to MantBits bits.  A float is a record        *)
(* [m, e] standing for m * 2^e, in canonical form: m is odd, or m = e = 0. *)
(* Security objects live in a heap (identifier -> fields); lists hold      *)
(* identifiers, so that in-place updates are seen through every list, as   *)
(* in Python.  The timestamp of an AllocationResult is left out: one       *)
(* value per run, read by nothing modelled here.                           *)
(***************************************************************************)
EXTENDS Integers, Sequences, FiniteSets, TLC

\* ------------------------------------------------------------------ bounds
\* Width of the significand of a float (53 in the program).
MantBits == 5
\* Longest security list handed to the allocator alone.
MaxSecurities == 3
\* Longest security list of a whole run.
MaxLoaded == 2

\* ------------------------------------------------- config/settings.py
MAX_RETRIES == 3

TOTAL_SECURITIES == 100

\* ------------------------------------------------------ float arithmetic
Pow2(n) == 2 ^ n

Min(a, b) == IF a <= b THEN a ELSE b

RECURSIVE Norm(_, _)
\* Canonical form of m * 2^e.
Norm(m, e) ==
    IF m = 0 THEN [m |-> 0, e |-> 0]
    ELSE IF m % 2 = 0 THEN Norm(m \div 2, e + 1)
    ELSE [m |-> m, e |-> e]

RECURSIVE RoundPos(_, _, _)
\* (n / d) * 2^e, n >= 0, d > 0, rounded to MantBits bits, ties to even.
RoundPos(n, d, e) ==
    IF n = 0 THEN [m |-> 0, e |-> 0]
    ELSE IF n >= Pow2(MantBits) * d THEN RoundPos(n, 2 * d, e + 1)
    ELSE IF n < Pow2(MantBits - 1) * d THEN RoundPos(2 * n, d, e - 1)
    ELSE LET q == n \div d
             r == n % d
             up == (2 * r > d) \/ (2 * r = d /\ q % 2 = 1)
         IN  Norm(IF up THEN q + 1 ELSE q, e)

FNeg(a) == [m |-> 0 - a.m, e |-> a.e]

\* The float nearest to (n / d) * 2^e, d > 0.
Round(n, d, e) ==
    IF n < 0 THEN FNeg(RoundPos(0 - n, d, e)) ELSE RoundPos(n, d, e)

\* An int that a float represents exactly (Python converts int operands).
FromInt(k) == Norm(k, 0)

Zero == FromInt(0)

\* float / float, divisor not zero.
FDiv(a, b) ==
    IF b.m > 0 THEN Round(a.m, b.m, a.e - b.e)
    ELSE Round(0 - a.m, 0 - b.m, a.e - b.e)

\* float / int, int / int (true division): the int operand converts exactly.
FDivInt(a, k) == Round(a.m, k, a.e)

IntDivInt(j, k) == Round(j, k, 0)

\* int * float.
IntMulF(k, a) == Round(k * a.m, 1, a.e)

\* float - float.
FSub(a, b) ==
    LET lo == Min(a.e, b.e)
    IN  Round(a.m * Pow2(a.e - lo) - b.m * Pow2(b.e - lo), 1, lo)

\* Exact comparisons of floats.
FLess(a, b) ==
    LET lo == Min(a.e, b.e)
    IN  a.m * Pow2(a.e - lo) < b.m * Pow2(b.e - lo)

FLeq(a, b) == a = b \/ FLess(a, b)

\* math.floor of a float.
Floor(a) == IF a.e >= 0 THEN a.m * Pow2(a.e) ELSE a.m \div Pow2(0 - a.e)

\* ----------------------------------------------------------------- values
None == [none |-> TRUE]

\* Symbols are strings: sequences of characters.
NS == <<".", "N", "S">>

Symbols == { <<"A">>, <<"B">> \o NS }

\* Floats used as prices and amounts: 3, 4.25, 10, 25, 100.
F3 == [m |-> 3, e |-> 0]

F4_25 == [m |-> 17, e |-> -2]

F10 == [m |-> 5, e |-> 1]

F25 == [m |-> 25, e |-> 0]

F100 == [m |-> 25, e |-> 2]

Investments == {F10, F25, F100}

PositivePrices == {F3, F4_25, F10}

\* Prices a CSV file carries, and last closes the quote source returns.
CsvPrices == {F10}

Closes == {F3, F4_25, Zero, FNeg(F3)}

\* Security (src/models/security.py), as the price fetcher and the allocator
\* read it: they read neither company_name, isin, market_cap, weightage nor
\* pe_ratio.
Security(symbol, current_price, data_loaded_from_csv) ==
    [symbol |-> symbol, current_price |-> current_price,
     data_loaded_from_csv |-> data_loaded_from_csv]

\* Takes every price of the CSV file, also one that is not positive.
loaded_with_any_price ==
    { Security(s, None, f) : s \in Symbols, f \in BOOLEAN }
        \cup { Security(s, p, TRUE) : s \in Symbols, p \in {Zero, F10} }

\* Every Security the constructor accepts, as far as the allocator reads it:
\* no price, a price that is not positive, or a positive price.
\* Every Security CSVHandler._create_security_from_row builds: a price only
\* if it is positive, and the flag if the row held a price or a P/E ratio.
LoadedSecurity ==
    { Security(s, None, f) : s \in Symbols, f \in BOOLEAN }
        \cup { Security(s, p, TRUE) : s \in Symbols, p \in CsvPrices }

AnySecurity ==
    { Security(s, p, FALSE) :
        s \in Symbols, p \in {None, Zero, FNeg(F3)} \cup PositivePrices }

\* A price is "truthy" (the test of CSVHandler._create_output_row), not "> 0".
is_price_truthy(security) ==
    security.current_price # None /\ security.current_price.m # 0

\* Security.is_price_available
is_price_available(security) ==
    security.current_price # None /\ security.current_price.m > 0

\* ------------------------------------------------------------------ state
VARIABLES
    pc,                     \* where the run stands
    yf,                     \* whether the yfinance module was imported
    heap,                   \* the Security objects, by identifier
    loaded,                 \* history: the Security objects as loaded
    securities,             \* run(): securities, as loaded and filtered
    total_investment,       \* run(): investment_amount
    total_fetches,          \* PriceFetcher.total_fetches
    successful_fetches,     \* PriceFetcher.successful_fetches
    failed_securities,      \* PriceFetcher.failed_securities
    securities_to_fetch,    \* fetch_prices_batch: what the loop has left
    updated_securities,     \* fetch_prices_batch: updated_securities
    attempt,                \* fetch_price: attempt
    last_response,          \* fetch_price: the answer to the last query
    price,                  \* fetch_prices_batch: price, as fetch_price returned
    symbol_arg,             \* fetch_price: symbol
    retries,                \* fetch_price: retries
    queries,                \* history: the symbols queried in this attempt
    resolver_calls,         \* history: the securities passed to fetch_price
    resolver_results,       \* history: what fetch_price returned for each
    securities_with_prices, \* run(): securities_with_prices
    fetch_summary,          \* run(): fetch_summary
    portfolio,              \* run(): portfolio
    error,                  \* the exception that ended the run
    exclusion_file,         \* run(): exclusion_file, and what the file holds
    excluded_count,         \* filter_excluded_securities: excluded_count
    filter_results,         \* history: what each call of the filter returned
    args,                   \* main(): args, as the command line gave them
    amount,                 \* main(): amount
    validation,             \* main(): is_valid, error_msg
    calls,                  \* history: what main() has called and opened
    exit_status,            \* how main() ended
    files,                  \* the result files written so far
    json_files,             \* what the order-batch files written hold
    write_failures,         \* history: the result files whose writing failed
    securities_file,        \* run(): securities_file, and what the file holds
    batch_calls,            \* history: the batches this PriceFetcher ran before
    previous_summary,       \* history: the summary of the batch before
    previous_run            \* history: the allocation before, and its input

fetcher_vars == <<total_fetches, successful_fetches, failed_securities>>

batch_vars == <<securities_to_fetch, updated_securities>>

\* The arguments of the running call of fetch_price, and what its running
\* attempt has asked the quote source.
call_vars == <<symbol_arg, retries, queries>>

resolver_vars == <<attempt, last_response, price, call_vars>>

history_vars == <<loaded, resolver_calls, resolver_results>>

input_vars == <<yf, securities, total_investment>>

filter_vars == <<exclusion_file, excluded_count, filter_results>>

\* What the steps of a run before and after the price fetch and the
\* allocation work on.
main_vars == <<args, amount, validation, calls, exit_status>>

emit_vars == <<files, json_files, write_failures>>

\* What is remembered of the earlier batches of one PriceFetcher, and of
\* the earlier call of the Allocator.
earlier_vars == <<batch_calls, previous_summary, previous_run>>

stage_vars ==
    <<filter_vars, main_vars, emit_vars, securities_file, earlier_vars>>

vars ==
    <<pc, heap, input_vars, fetcher_vars, batch_vars, resolver_vars,
      history_vars, securities_with_prices, fetch_summary, portfolio, error,
      stage_vars>>

\* ------------------------------------------------------------ PriceFetcher
EndsWithNS(symbol) ==
    Len(symbol) >= 3 /\ SubSeq(symbol, Len(symbol) - 2, Len(symbol)) = NS

\* yf_symbol = symbol if symbol.endswith('.NS') else f"{symbol}.NS"
yf_symbol(symbol) == IF EndsWithNS(symbol) THEN symbol ELSE symbol \o NS

\* original_symbol = symbol[:-3]
original_symbol(symbol) == SubSeq(symbol, 1, Len(symbol) - 3)

\* What ticker.history() does: raises, returns no rows, or returns rows
\* whose last close is some number.
Responses ==
    {[kind |-> "error"], [kind |-> "nodata"]}
        \cup {[kind |-> "data", close |-> c] : c \in Closes}

\* Accepts every close, also one that is not positive.
any_close_is_valid(last_price) == TRUE

\* if last_price > 0
close_is_valid(last_price) == last_price.m > 0

\* Queries again without counting the attempt.
query_again_uncounted ==
    /\ pc' = "query"
    /\ UNCHANGED <<attempt, price>>

\* The end of one pass of the loop "for attempt in range(retries + 1)" that
\* neither returned nor raised: the next attempt starts at once, and after
\* the last one the function returns None.
NextAttempt ==
    IF attempt < retries
    THEN /\ attempt' = attempt + 1
         /\ pc' = "query"
         /\ UNCHANGED price
    ELSE /\ price' = None
         /\ pc' = "fetched"
         /\ UNCHANGED attempt

\* Goes on to the next attempt without sleeping.
continue_at_once ==
    IF attempt < retries
    THEN /\ attempt' = attempt + 1
         /\ pc' = "query"
         /\ UNCHANGED price
    ELSE /\ price' = None
         /\ pc' = "fetched"
         /\ UNCHANGED attempt

\* except Exception: sleep and continue, or give up after the last attempt.
HandleException ==
    IF attempt < retries
    THEN /\ pc' = "sleep"
         /\ UNCHANGED <<attempt, price>>
    ELSE /\ price' = None
         /\ pc' = "fetched"
         /\ UNCHANGED attempt

\* return float(last_price)
ReturnPrice(last_price) ==
    /\ price' = last_price
    /\ pc' = "fetched"
    /\ UNCHANGED attempt

\* Takes the flag alone for a price from the CSV file.
with_csv_flag(ids) == SelectSeq(ids, LAMBDA id : heap[id].data_loaded_from_csv)

\* s.data_loaded_from_csv and s.current_price is not None
has_csv_data(security) ==
    security.data_loaded_from_csv /\ security.current_price # None

\* Fetches every security again, whatever it carries.
fetch_all_again(ids) == ids

\* securities_with_csv_data, securities_to_fetch
with_csv_data(ids) == SelectSeq(ids, LAMBDA id : has_csv_data(heap[id]))

to_fetch(ids) == SelectSeq(ids, LAMBDA id : ~has_csv_data(heap[id]))

\* Forgets to count the securities priced by the CSV file.
csv_successes_not_counted(ids) == 0

\* successful_fetches += 1 for each security with CSV data
csv_successes(ids) == Len(ids)

\* Drops a security whose price fetch failed.
append_only_if_priced(updated, id, p) ==
    IF p = None THEN updated ELSE Append(updated, id)

\* updated_securities.append(security)
\* Puts the security in front of the list.
prepend_updated(updated, id, p) == <<id>> \o updated

append_updated(updated, id, p) == Append(updated, id)

\* Keeps the failed symbols of the batches before.
failed_securities_kept(failed) == failed

\* self.failed_securities = []
failed_securities_reset(failed) == <<>>

\* Counts on from the successes of the batches before.
successful_fetches_kept(successful) == successful

\* self.successful_fetches = 0
successful_fetches_reset(successful) == 0

\* fetch_prices_batch, up to its loop: resets the counters, splits the list.
fetch_prices_batch_begin ==
    /\ pc = "fetch_prices"
    /\ total_fetches' = Len(securities)
    /\ successful_fetches' =
          successful_fetches_reset(successful_fetches)
              + csv_successes(with_csv_data(securities))
    /\ failed_securities' = failed_securities_reset(failed_securities)
    /\ securities_to_fetch' = to_fetch(securities)
    /\ updated_securities' = with_csv_data(securities)
    /\ pc' = "batch_loop"
    /\ UNCHANGED <<heap, input_vars, stage_vars, resolver_vars, history_vars,
                   securities_with_prices, fetch_summary, portfolio, error>>

\* price = self.fetch_price(security.symbol): the call, up to the first query.
fetch_price_call ==
    /\ pc = "batch_loop"
    /\ securities_to_fetch # <<>>
    /\ resolver_calls' = Append(resolver_calls, Head(securities_to_fetch))
    /\ symbol_arg' = heap[Head(securities_to_fetch)].symbol
    /\ retries' = MAX_RETRIES
    /\ queries' = <<>>
    /\ IF yf
       THEN /\ attempt' = 0
            /\ pc' = "query"
            /\ UNCHANGED price
       ELSE /\ price' = None
            /\ pc' = "fetched"
            /\ UNCHANGED attempt
    /\ UNCHANGED <<heap, input_vars, stage_vars, fetcher_vars, batch_vars, last_response,
                   loaded, resolver_results, securities_with_prices,
                   fetch_summary, portfolio, error>>

\* The symbols a running attempt has queried, after the query of
\* queried_symbol: a pass of the loop that ends without return starts the
\* next attempt, which has queried nothing yet.
queries_after(queried_symbol, next_attempt) ==
    IF next_attempt = attempt THEN Append(queries, queried_symbol) ELSE <<>>

\* One attempt: the query of the symbol with its .NS suffix.
query_suffixed ==
    /\ pc = "query"
    /\ \E response \in Responses :
          /\ last_response' = response
          /\ IF response.kind = "error" THEN HandleException
             ELSE IF response.kind = "data"
             THEN IF close_is_valid(response.close)
                  THEN ReturnPrice(response.close)
                  ELSE NextAttempt
             ELSE IF EndsWithNS(symbol_arg)
             THEN /\ pc' = "query_bare"
                  /\ UNCHANGED <<attempt, price>>
             ELSE NextAttempt
    /\ queries' = queries_after(yf_symbol(symbol_arg), attempt')
    /\ UNCHANGED <<symbol_arg, retries>>
    /\ UNCHANGED <<heap, input_vars, stage_vars, fetcher_vars, batch_vars, history_vars,
                   securities_with_prices, fetch_summary, portfolio, error>>

\* The same attempt: the query of the symbol without its .NS suffix.
query_bare ==
    /\ pc = "query_bare"
    /\ \E response \in Responses :
          /\ last_response' = response
          /\ IF response.kind = "error" THEN HandleException
             ELSE IF response.kind = "data" /\ close_is_valid(response.close)
             THEN ReturnPrice(response.close)
             ELSE NextAttempt
    /\ queries' = queries_after(original_symbol(symbol_arg), attempt')
    /\ UNCHANGED <<symbol_arg, retries>>
    /\ UNCHANGED <<heap, input_vars, stage_vars, fetcher_vars, batch_vars, history_vars,
                   securities_with_prices, fetch_summary, portfolio, error>>

\* time.sleep(RETRY_DELAY); continue
retry_sleep ==
    /\ pc = "sleep"
    /\ attempt' = attempt + 1
    /\ queries' = <<>>
    /\ pc' = "query"
    /\ UNCHANGED <<symbol_arg, retries>>
    /\ UNCHANGED <<heap, input_vars, stage_vars, fetcher_vars, batch_vars, last_response,
                   price, history_vars, securities_with_prices, fetch_summary,
                   portfolio, error>>

\* The rest of the loop body of fetch_prices_batch, after fetch_price returned.
record_fetched ==
    /\ pc = "fetched"
    /\ securities_to_fetch # <<>>
    /\ LET id == Head(securities_to_fetch)
       IN  /\ IF price # None
              THEN /\ heap' = [heap EXCEPT ![id].current_price = price]
                   /\ successful_fetches' = successful_fetches + 1
                   /\ UNCHANGED failed_securities
              ELSE /\ failed_securities' =
                         Append(failed_securities, heap[id].symbol)
                   /\ UNCHANGED <<heap, successful_fetches>>
           /\ updated_securities' = append_updated(updated_securities, id, price)
           /\ resolver_results' = Append(resolver_results, price)
    /\ securities_to_fetch' = Tail(securities_to_fetch)
    /\ last_response' = None
    /\ symbol_arg' = <<>>
    /\ retries' = None
    /\ queries' = <<>>
    /\ pc' = "batch_loop"
    /\ UNCHANGED <<input_vars, stage_vars, total_fetches, attempt, price, loaded,
                   resolver_calls, securities_with_prices, fetch_summary,
                   portfolio, error>>

\* fetch_prices_batch after its loop: the success rate it logs divides by
\* total_fetches, which raises ZeroDivisionError for an empty list.
fetch_prices_batch_end ==
    /\ pc = "batch_loop"
    /\ securities_to_fetch = <<>>
    /\ IF total_fetches = 0
       THEN /\ error' = "ZeroDivisionError"
            /\ pc' = "error"
            /\ UNCHANGED securities_with_prices
       ELSE /\ securities_with_prices' = updated_securities
            /\ pc' = "summary"
            /\ UNCHANGED error
    /\ UNCHANGED <<heap, input_vars, stage_vars, fetcher_vars, batch_vars, resolver_vars,
                   history_vars, fetch_summary, portfolio>>

\* PriceFetcher.get_fetch_summary, as run() calls it after the batch.
get_fetch_summary ==
    /\ pc = "summary"
    /\ fetch_summary' =
          [total_securities |-> total_fetches,
           successful_fetches |-> successful_fetches,
           failed_securities |-> Len(failed_securities),
           success_rate |->
               IF total_fetches > 0
               THEN IntMulF(100, IntDivInt(successful_fetches, total_fetches))
               ELSE Zero,
           failed_symbols |-> failed_securities]
    /\ pc' = "allocate"
    /\ UNCHANGED <<heap, input_vars, stage_vars, fetcher_vars, batch_vars, resolver_vars,
                   history_vars, securities_with_prices, portfolio, error>>

\* ---------------------------------------------------------------- Allocator
\* Gives a security its index weightage of the investment as its target.
allocation_by_weightage(id, target_amount, target_pct, total) ==
    [security |-> id,
     target_allocation_pct |-> heap[id].weightage,
     target_amount |-> FDivInt(IntMulF(heap[id].weightage.m, total), 100),
     shares_to_buy |-> 0,
     actual_allocation_amount |-> Zero,
     actual_allocation_pct |-> Zero,
     unallocated_amount |-> target_amount]

\* Allocator._calculate_security_allocation; id names the Security.
calculate_security_allocation(id, target_amount, target_pct, total) ==
    LET security == heap[id]
        shares_to_buy == Floor(FDiv(target_amount, security.current_price))
        actual_allocation_amount == IntMulF(shares_to_buy, security.current_price)
    IN  IF ~is_price_available(security)
        THEN [security |-> id,
              target_allocation_pct |-> target_pct,
              target_amount |-> target_amount,
              shares_to_buy |-> 0,
              actual_allocation_amount |-> Zero,
              actual_allocation_pct |-> Zero,
              unallocated_amount |-> target_amount]
        ELSE [security |-> id,
              target_allocation_pct |-> target_pct,
              target_amount |-> target_amount,
              shares_to_buy |-> shares_to_buy,
              actual_allocation_amount |-> actual_allocation_amount,
              actual_allocation_pct |->
                  IntMulF(100, FDiv(actual_allocation_amount, total)),
              unallocated_amount |->
                  FSub(target_amount, actual_allocation_amount)]

\* Splits over the index size of the settings, not over the list.
split_over_TOTAL_SECURITIES(total, num_securities) ==
    FDivInt(total, TOTAL_SECURITIES)

\* per_security_amount = total_investment / num_securities
per_security_amount_of(total, num_securities) == FDivInt(total, num_securities)

\* allocation_percentage = 100.0 / num_securities
allocation_percentage_of(num_securities) == IntDivInt(100, num_securities)

\* Allocator.calculate_equal_weight_allocation(securities, total_investment):
\* the division by len(securities) raises ZeroDivisionError on an empty list.
calculate_equal_weight_allocation ==
    /\ pc = "allocate"
    /\ LET num_securities == Len(securities_with_prices)
       IN  IF num_securities = 0
           THEN /\ error' = "ZeroDivisionError"
                /\ pc' = "error"
                /\ UNCHANGED portfolio
           ELSE LET per_security_amount ==
                        per_security_amount_of(total_investment, num_securities)
                    allocation_percentage ==
                        allocation_percentage_of(num_securities)
                IN  /\ portfolio' =
                          [total_investment |-> total_investment,
                           allocation_results |->
                               [i \in 1..num_securities |->
                                   calculate_security_allocation(
                                       securities_with_prices[i],
                                       per_security_amount,
                                       allocation_percentage, total_investment)]]
                    /\ pc' = "done"
                    /\ UNCHANGED error
    /\ UNCHANGED <<heap, input_vars, stage_vars, fetcher_vars, batch_vars, resolver_vars,
                   history_vars, securities_with_prices, fetch_summary>>

\* No exclusion file was given: the filter is not called.
NothingFiltered ==
    /\ exclusion_file = None
    /\ excluded_count = 0
    /\ filter_results = <<>>

\* run() called from elsewhere than main().
NotFromMain ==
    /\ args = None
    /\ amount = None
    /\ validation = None
    /\ calls = <<>>
    /\ exit_status = None

\* No result file is written yet, and what the securities file held is
\* not looked at.
NothingWritten ==
    /\ files = {}
    /\ json_files = <<>>
    /\ write_failures = {}
    /\ securities_file = None

\* The state of a run that has fetched nothing yet.
NothingFetched ==
    /\ total_fetches = 0
    /\ successful_fetches = 0
    /\ failed_securities = <<>>
    /\ securities_to_fetch = <<>>
    /\ updated_securities = <<>>
    /\ attempt = 0
    /\ last_response = None
    /\ price = None
    /\ symbol_arg = <<>>
    /\ retries = None
    /\ queries = <<>>
    /\ resolver_calls = <<>>
    /\ resolver_results = <<>>
    /\ fetch_summary = None
    /\ portfolio = None
    /\ error = "none"
    /\ batch_calls = 0
    /\ previous_summary = None
    /\ previous_run = None

\* Nifty100Tracker.run after its securities are loaded (and filtered):
\* fetch the prices, read the summary, allocate.
Init ==
    /\ pc = "fetch_prices"
    /\ yf \in BOOLEAN
    /\ \E n \in 0..MaxLoaded :
          /\ heap \in [1..n -> LoadedSecurity]
          /\ securities = [i \in 1..n |-> i]
    /\ loaded = heap
    /\ total_investment \in Investments
    /\ securities_with_prices = <<>>
    /\ NothingFetched
    /\ NothingFiltered
    /\ NotFromMain
    /\ NothingWritten

Next ==
    \/ fetch_prices_batch_begin
    \/ fetch_price_call
    \/ query_suffixed
    \/ query_bare
    \/ retry_sleep
    \/ record_fetched
    \/ fetch_prices_batch_end
    \/ get_fetch_summary
    \/ calculate_equal_weight_allocation

Spec == Init /\ [][Next]_vars

\* Direct calls of the allocator, on every list of securities and amount.
InitAlloc ==
    /\ pc = "allocate"
    /\ \E n \in 0..MaxSecurities :
          /\ heap \in [1..n -> AnySecurity]
          /\ securities = [i \in 1..n |-> i]
    /\ yf = TRUE
    /\ loaded = heap
    /\ securities_with_prices = securities
    /\ total_investment \in Investments
    /\ NothingFetched
    /\ NothingFiltered
    /\ NotFromMain
    /\ NothingWritten

NextAlloc == calculate_equal_weight_allocation

SpecAlloc == InitAlloc /\ [][NextAlloc]_vars

\* ------------------------------------------------- claims on the allocator
Results == portfolio.allocation_results

Allocated == pc = "done"

PriceOf(r) == heap[r.security].current_price

Priced(r) == is_price_available(heap[r.security])

\* a.m * 2^a.e as an integer multiple of 2^lo (lo at most a.e).
Scaled(a, lo) == a.m * Pow2(a.e - lo)

\* The smallest exponent among the target amounts and the investment.
LowExp ==
    LET es == {Results[i].target_amount.e : i \in DOMAIN Results}
                  \cup {total_investment.e}
    IN  CHOOSE e \in es : \A f \in es : e <= f

RECURSIVE SumScaledTargets(_)
\* The exact sum of the first k target amounts, in units of 2^LowExp.
SumScaledTargets(k) ==
    IF k = 0 THEN 0
    ELSE SumScaledTargets(k - 1) + Scaled(Results[k].target_amount, LowExp)

\* The exact difference between the sum of all targets and the investment.
TargetSumError ==
    LET d == SumScaledTargets(Len(Results)) - Scaled(total_investment, LowExp)
    IN  IF d < 0 THEN 0 - d ELSE d

\* C1: for every priced security shares_to_buy is the floor of
\* target_amount / price, unallocated_amount is target_amount -
\* shares_to_buy * price, and 0 <= unallocated_amount < price.
C1_PricedFloorAndRemainder ==
    Allocated =>
        \A i \in DOMAIN Results :
            LET r == Results[i]
                cost(k) == IntMulF(k, PriceOf(r))
            IN  Priced(r) =>
                    /\ r.shares_to_buy = Floor(FDiv(r.target_amount, PriceOf(r)))
                    /\ r.unallocated_amount =
                           FSub(r.target_amount, cost(r.shares_to_buy))
                    /\ FLeq(Zero, r.unallocated_amount)
                    /\ FLess(r.unallocated_amount, PriceOf(r))

\* C2: every result satisfies actual_allocation_amount <= target_amount and
\* shares_to_buy >= 0.
C2_NeverOverTarget ==
    Allocated =>
        \A i \in DOMAIN Results :
            /\ FLeq(Results[i].actual_allocation_amount, Results[i].target_amount)
            /\ Results[i].shares_to_buy >= 0

\* C3: a security without an available price (none, or not positive) gets
\* shares_to_buy = 0, actual amount 0, actual percentage 0 and its whole
\* target as unallocated_amount.
C3_UnpricedGetsNothing ==
    Allocated =>
        \A i \in DOMAIN Results :
            LET r == Results[i]
                cp == heap[securities_with_prices[i]].current_price
            IN  (cp = None \/ cp.m <= 0) =>
                    /\ r.shares_to_buy = 0
                    /\ r.actual_allocation_amount = Zero
                    /\ r.actual_allocation_pct = Zero
                    /\ r.unallocated_amount = r.target_amount
                    /\ r.target_amount =
                           FDivInt(total_investment, Len(securities_with_prices))

\* C3 witness: a run allocated a security whose price is zero or negative,
\* and one whose price is missing.
C3_Witness ==
    /\ Allocated
    /\ \E i \in DOMAIN Results :
          PriceOf(Results[i]) # None /\ PriceOf(Results[i]).m < 0
    /\ \E i \in DOMAIN Results : PriceOf(Results[i]) = None

\* Every result carries the equal split: total / N and 100 / N.
EqualSplit ==
    \A i \in DOMAIN Results :
        /\ Len(Results) = Len(securities_with_prices)
        /\ Results[i].target_amount =
               FDivInt(total_investment, Len(securities_with_prices))
        /\ Results[i].target_allocation_pct =
               IntDivInt(100, Len(securities_with_prices))

\* C4 as stated: every result has target_amount = total / N and
\* target_allocation_pct = 100 / N, and the targets sum to total_investment.
C4_TargetsSumExactly ==
    Allocated => (EqualSplit /\ TargetSumError = 0)

\* C4 amended: every result has target_amount = total / N and
\* target_allocation_pct = 100 / N, and the targets sum to total_investment
\* within the rounding error of that one division (relative 2^-MantBits).
C4_TargetsSumWithinRounding ==
    Allocated =>
        /\ EqualSplit
        /\ Pow2(MantBits) * TargetSumError <= Scaled(total_investment, LowExp)

\* C4 witness: three securities, and a split that is not exact.
C4_Witness ==
    Allocated /\ Len(Results) = 3 /\ TargetSumError > 0

\* C5: the allocator called with an empty list fails with an explicit error,
\* never with a division by zero, and returns no Portfolio.
C5_EmptyListExplicitError ==
    (Len(securities_with_prices) = 0 /\ pc # "allocate") =>
        /\ portfolio = None
        /\ error # "none"
        /\ error # "ZeroDivisionError"

\* ------------------------------------------- claims on the price resolution
\* The security entered the batch with a price set and marked trusted.
Trusted(id) ==
    loaded[id].data_loaded_from_csv /\ loaded[id].current_price # None

TrustedIds == {id \in DOMAIN loaded : Trusted(id)}

LiveOk == {k \in DOMAIN resolver_results : resolver_results[k] # None}

LiveFailed == {k \in DOMAIN resolver_results : resolver_results[k] = None}

RECURSIVE FailedSymbols(_)
\* The symbols of the first k resolver calls that returned not-found.
FailedSymbols(k) ==
    IF k = 0 THEN <<>>
    ELSE IF resolver_results[k] = None
    THEN Append(FailedSymbols(k - 1), loaded[resolver_calls[k]].symbol)
    ELSE FailedSymbols(k - 1)

Range(seq) == {seq[i] : i \in DOMAIN seq}

BatchReturned == pc \in {"summary", "allocate", "done"}

SummaryRead == pc \in {"allocate", "done"}

\* C6: a security that enters a batch with a trusted price is never passed
\* to the resolver, keeps its price, is counted as a success, and puts no
\* symbol on the failed list: the list holds the symbols of the failed live
\* resolutions only, so its symbol is absent unless another security with
\* the same symbol failed.
C6_TrustedPriceSkipsResolver ==
    /\ \A id \in TrustedIds :
          /\ id \notin Range(resolver_calls)
          /\ heap[id].current_price = loaded[id].current_price
          /\ (\A j \in DOMAIN loaded :
                  Trusted(j) \/ loaded[j].symbol # loaded[id].symbol)
                 => loaded[id].symbol \notin Range(failed_securities)
    /\ pc # "fetch_prices" =>
          /\ successful_fetches = Cardinality(TrustedIds) + Cardinality(LiveOk)
          /\ failed_securities = FailedSymbols(Len(resolver_results))

\* C6 witness: a batch returned with a trusted security untouched while the
\* live source failed for another security with the same symbol.
C6_Witness ==
    /\ BatchReturned
    /\ \E id \in TrustedIds : \E k \in LiveFailed :
          loaded[resolver_calls[k]].symbol = loaded[id].symbol

\* C7: after a completed batch the summary has total = number of input
\* securities, successful = trusted + live successes, failed = live failures
\* = length of the failed-symbol list, successful + failed = total and
\* success rate = successful / total * 100.
C7_SummaryCounts ==
    SummaryRead =>
        /\ fetch_summary.total_securities = Len(securities)
        /\ fetch_summary.successful_fetches =
               Cardinality(TrustedIds) + Cardinality(LiveOk)
        /\ fetch_summary.failed_securities = Cardinality(LiveFailed)
        /\ fetch_summary.failed_securities = Len(fetch_summary.failed_symbols)
        /\ fetch_summary.successful_fetches + fetch_summary.failed_securities
               = fetch_summary.total_securities
        /\ fetch_summary.success_rate =
               IntMulF(100, IntDivInt(fetch_summary.successful_fetches,
                                      fetch_summary.total_securities))

\* C7 witness: a summary over a trusted security and a failed one.
C7_Witness ==
    /\ SummaryRead
    /\ Cardinality(TrustedIds) = 1
    /\ Cardinality(LiveFailed) = 1
    /\ fetch_summary.success_rate = FromInt(50)

\* C8: a batch over zero securities completes without error, and its summary
\* reports total 0, successful 0, failed 0, no failed symbol and rate 0.
C8_EmptyBatchCompletes ==
    (Len(securities) = 0 /\ pc \notin {"fetch_prices", "batch_loop"}) =>
        /\ error = "none"
        /\ SummaryRead =>
              fetch_summary =
                  [total_securities |-> 0, successful_fetches |-> 0,
                   failed_securities |-> 0, success_rate |-> Zero,
                   failed_symbols |-> <<>>]

\* C9: the resolver returns not-found or a price greater than 0, whatever
\* the quote source answers.
C9_ResolvedPricePositive ==
    /\ pc = "fetched" => (price = None \/ price.m > 0)
    /\ \A k \in DOMAIN resolver_results :
          resolver_results[k] = None \/ resolver_results[k].m > 0

\* C9 witness: the resolver returned not-found after a close that is not
\* positive, having returned a positive price for an earlier security.
C9_Witness ==
    /\ pc = "fetched"
    /\ price = None
    /\ last_response # None
    /\ last_response.kind = "data"
    /\ LiveOk # {}

\* The identifiers of the loaded securities that need resolution, in order.
NeedResolution == SelectSeq(securities, LAMBDA id : ~Trusted(id))

\* C10: a failed price resolution does not end the batch or the run: every
\* security that needs resolution is still resolved, the failed symbol is on
\* the failed list, the security is returned with no available price, and
\* the allocation gives it 0 shares and its whole target as unallocated.
C10_FailureIsNotFatal ==
    /\ pc = "error" => resolver_calls = <<>>
    /\ BatchReturned =>
          /\ resolver_calls = NeedResolution
          /\ \A k \in LiveFailed :
                /\ loaded[resolver_calls[k]].symbol \in Range(failed_securities)
                /\ resolver_calls[k] \in Range(securities_with_prices)
                /\ ~is_price_available(heap[resolver_calls[k]])
    /\ pc = "done" =>
          /\ Len(Results) = Len(securities)
          /\ \A i \in DOMAIN Results :
                (\E k \in LiveFailed : resolver_calls[k] = Results[i].security)
                    => /\ Results[i].shares_to_buy = 0
                       /\ Results[i].unallocated_amount =
                              FDivInt(total_investment, Len(securities))

\* C10 witness: a run allocated after one resolution failed and a later one
\* succeeded.
C10_Witness ==
    /\ pc = "done"
    /\ \E k \in LiveFailed : \E l \in LiveOk : k < l

\* ------------------------------------------------------- exclusion filter
MaxFiltered == 3

MaxExcluded == 2

MaxFilterCalls == 2

\* Symbols that differ in case only, and ISINs that differ in case only.
FilterSymbols == { <<"A">>, <<"a">>, <<"B">> }

Isins == {"INE1", "ine1"}

\* Security, as the exclusion filter reads it: symbol and isin.
ListedSecurity(symbol, isin) ==
    [symbol |-> symbol, isin |-> isin,
     current_price |-> None, data_loaded_from_csv |-> FALSE]

ListedSecurities == { ListedSecurity(s, i) : s \in FilterSymbols, i \in Isins }

\* The securities an exclusion file lists.
ExcludedSecurities ==
    { ListedSecurity(<<"A">>, "INE1"), ListedSecurity(<<"a">>, "ine1"),
      ListedSecurity(<<"B">>, "ine1") }

\* str.upper, character by character.
UpperChar(c) ==
    CASE c = "a" -> "A"
      [] c = "b" -> "B"
      [] OTHER -> c

Upper(symbol) == [i \in DOMAIN symbol |-> UpperChar(symbol[i])]

\* excluded_symbols = {sec.symbol.upper() for sec in excluded_securities}
excluded_symbols_of(excluded_securities) ==
    { Upper(excluded_securities[i].symbol) : i \in DOMAIN excluded_securities }

\* excluded_isins = {sec.isin for sec in excluded_securities}
excluded_isins_of(excluded_securities) ==
    { excluded_securities[i].isin : i \in DOMAIN excluded_securities }

\* Excludes only a security that matches by symbol and by ISIN.
excluded_if_both(security, excluded_symbols, excluded_isins) ==
    Upper(security.symbol) \in excluded_symbols
        /\ security.isin \in excluded_isins

\* security.symbol.upper() in excluded_symbols or security.isin in excluded_isins
is_excluded(security, excluded_symbols, excluded_isins) ==
    Upper(security.symbol) \in excluded_symbols
        \/ security.isin \in excluded_isins

\* Removes from the list it iterates over: the element after a removed one
\* is never looked at.
RECURSIVE RemoveFrom(_, _, _, _)

RemoveFrom(ids, i, excluded_symbols, excluded_isins) ==
    IF i > Len(ids) THEN ids
    ELSE IF is_excluded(heap[ids[i]], excluded_symbols, excluded_isins)
         THEN RemoveFrom(SubSeq(ids, 1, i - 1) \o SubSeq(ids, i + 1, Len(ids)),
                         i + 1, excluded_symbols, excluded_isins)
         ELSE RemoveFrom(ids, i + 1, excluded_symbols, excluded_isins)

remove_while_iterating(ids, excluded_symbols, excluded_isins) ==
    RemoveFrom(ids, 1, excluded_symbols, excluded_isins)

\* filtered_securities: every security of the loop that is not excluded
filtered_securities_of(ids, excluded_symbols, excluded_isins) ==
    SelectSeq(ids, LAMBDA id :
        ~is_excluded(heap[id], excluded_symbols, excluded_isins))

\* Counts the securities excluded by their symbol only.
count_symbol_matches(ids, excluded_symbols, excluded_isins) ==
    Len(SelectSeq(ids, LAMBDA id :
        Upper(heap[id].symbol) \in excluded_symbols))

\* excluded_count: one for every security of the loop that is excluded
excluded_count_of(ids, excluded_symbols, excluded_isins) ==
    Len(SelectSeq(ids, LAMBDA id :
        is_excluded(heap[id], excluded_symbols, excluded_isins)))

\* CSVHandler.filter_excluded_securities(securities, exclusion_file), and
\* run()'s assignment of what it returns to securities.
filter_excluded_securities ==
    /\ pc = "filter"
    /\ Len(filter_results) < MaxFilterCalls
    /\ IF ~exclusion_file.exists
       THEN /\ error' = "FileNotFoundError"
            /\ pc' = "error"
            /\ UNCHANGED <<securities, excluded_count, filter_results>>
       ELSE LET excluded_securities == exclusion_file.securities
                excluded_symbols == excluded_symbols_of(excluded_securities)
                excluded_isins == excluded_isins_of(excluded_securities)
                filtered_securities ==
                    filtered_securities_of(securities, excluded_symbols,
                                           excluded_isins)
                count == excluded_count_of(securities, excluded_symbols,
                                           excluded_isins)
            IN  /\ securities' = filtered_securities
                /\ excluded_count' = count
                /\ filter_results' =
                       Append(filter_results,
                              [securities |-> securities,
                               filtered_securities |-> filtered_securities,
                               excluded_count |-> count])
                /\ UNCHANGED <<pc, error>>
    /\ UNCHANGED <<heap, yf, total_investment, exclusion_file, fetcher_vars,
                   batch_vars, resolver_vars, history_vars,
                   securities_with_prices, fetch_summary, portfolio,
                   main_vars, emit_vars,
                   securities_file, earlier_vars>>

\* Every exclusion file: missing, or holding a list of securities.
ExclusionFiles ==
    { [exists |-> FALSE] }
        \cup { [exists |-> TRUE, securities |-> e] :
                 e \in UNION { [1..k -> ExcludedSecurities] : k \in 0..MaxExcluded } }

\* Calls of the filter, on every list of securities and exclusion file; a
\* further call filters what the call before it returned.
InitFilter ==
    /\ pc = "filter"
    /\ \E n \in 0..MaxFiltered :
          /\ heap \in [1..n -> ListedSecurities]
          /\ securities = [i \in 1..n |-> i]
    /\ exclusion_file \in ExclusionFiles
    /\ excluded_count = 0
    /\ filter_results = <<>>
    /\ yf = TRUE
    /\ loaded = heap
    /\ total_investment = F100
    /\ securities_with_prices = <<>>
    /\ NothingFetched
    /\ NotFromMain
    /\ NothingWritten

NextFilter == filter_excluded_securities

SpecFilter == InitFilter /\ [][NextFilter]_vars

\* ------------------------------------------ claims on the exclusion filter
Exclusions ==
    IF exclusion_file.exists
    THEN { exclusion_file.securities[i] : i \in DOMAIN exclusion_file.securities }
    ELSE {}

SymbolMatch(id) ==
    \E x \in Exclusions : Upper(heap[id].symbol) = Upper(x.symbol)

IsinMatch(id) == \E x \in Exclusions : heap[id].isin = x.isin

Removed(r, id) ==
    /\ \E i \in DOMAIN r.securities : r.securities[i] = id
    /\ \A i \in DOMAIN r.filtered_securities : r.filtered_securities[i] # id

\* C11: a call of the filter removes a security of its input exactly when
\* the security's upper-cased symbol is the upper-cased symbol of some
\* exclusion or its ISIN is, character for character, the ISIN of some
\* exclusion; either match alone removes it.
C11_RemovedIffSymbolOrIsin ==
    \A k \in DOMAIN filter_results :
        LET r == filter_results[k]
        IN  \A i \in DOMAIN r.securities :
                LET id == r.securities[i]
                IN  Removed(r, id) <=> (SymbolMatch(id) \/ IsinMatch(id))

\* One call removed a security by its symbol alone and another by its ISIN
\* alone, and kept one whose ISIN differs from an exclusion's in case only.
C11_Witness ==
    \E k \in DOMAIN filter_results :
        LET r == filter_results[k]
        IN  /\ \E i \in DOMAIN r.securities :
                  /\ Removed(r, r.securities[i])
                  /\ SymbolMatch(r.securities[i])
                  /\ ~IsinMatch(r.securities[i])
                  /\ \E x \in Exclusions :
                        /\ Upper(heap[r.securities[i]].symbol) = Upper(x.symbol)
                        /\ heap[r.securities[i]].symbol # x.symbol
            /\ \E i \in DOMAIN r.securities :
                  /\ Removed(r, r.securities[i])
                  /\ IsinMatch(r.securities[i])
                  /\ ~SymbolMatch(r.securities[i])
            /\ \E i \in DOMAIN r.securities :
                  /\ ~Removed(r, r.securities[i])
                  /\ \E x \in Exclusions :
                        heap[r.securities[i]].isin # x.isin

\* C12: what a call of the filter returns is its input without the matching
\* securities, the others in their order; the excluded count and the kept
\* count add up to the input count; an empty exclusion list removes nothing.
C12_KeptInOrder ==
    \A k \in DOMAIN filter_results :
        LET r == filter_results[k]
        IN  /\ r.filtered_securities =
                   SelectSeq(r.securities,
                             LAMBDA id : ~(SymbolMatch(id) \/ IsinMatch(id)))
            /\ Len(r.filtered_securities) + r.excluded_count = Len(r.securities)
            /\ Exclusions = {} =>
                   /\ r.filtered_securities = r.securities
                   /\ r.excluded_count = 0

\* A call removed the security between two that it kept, and it did so by
\* the ISIN alone.
C12_Witness ==
    /\ Len(filter_results) >= 1
    /\ filter_results[1].securities = <<1, 2, 3>>
    /\ filter_results[1].filtered_securities = <<1, 3>>
    /\ filter_results[1].excluded_count = 1
    /\ ~SymbolMatch(2)

\* C13: a call of the filter on what the call before it returned, with the
\* same exclusion file, returns its input and excludes nothing.
C13_FilterIdempotent ==
    \A k \in DOMAIN filter_results :
        k >= 2 =>
            /\ filter_results[k].securities =
                   filter_results[k - 1].filtered_securities
            /\ filter_results[k].filtered_securities =
                   filter_results[k - 1].filtered_securities
            /\ filter_results[k].excluded_count = 0

\* The first call removed two securities in a row and kept one; the second
\* call had that one as its input.
C13_Witness ==
    /\ Len(filter_results) = 2
    /\ filter_results[1].excluded_count = 2
    /\ filter_results[1].filtered_securities = <<3>>
    /\ filter_results[2].securities = <<3>>

\* ------------------------------------------------------------- validators
MIN_INVESTMENT_AMOUNT == 1000

MAX_INVESTMENT_AMOUNT == 100000000

\* Floats that are no numbers: float('nan'), float('inf'), float('-inf').
NaN == [nan |-> TRUE]

Inf == [inf |-> 1]

NegInf == [inf |-> -1]

IsFinite(x) == x \notin {NaN, Inf, NegInf}

\* An int, a str and a float as Python values of different types.
IntValue(k) == [int |-> k]

StrValue(text) == [str |-> text]

\* k + 0.5
Half(k) == [m |-> 2 * k + 1, e |-> -1]

AmountInts ==
    {-1000, -1, 0, 1, 2, 500, 999, 1000, 1001, 50000, 99999999,
     MAX_INVESTMENT_AMOUNT, MAX_INVESTMENT_AMOUNT + 1}

AmountTexts ==
    { <<>>, <<"a", "b", "c">>, <<"n", "a", "n">>, <<"i", "n", "f">>,
      <<"-", "5">>, <<"-">>, <<"0">>, <<"9", "9", "9">>,
      <<"1", "0", "0", "0">>, <<"5", "0", "0", "0">>,
      <<"1", "0", "0", "0", "0", "0", "0", "0", "0">>,
      <<"1", "0", "0", "0", "0", "0", "0", "0", "1">> }

\* What a caller can pass as amount: Union[str, float, int], or None.
Amounts ==
    { IntValue(k) : k \in AmountInts }
        \cup { FromInt(k) : k \in AmountInts }
        \cup { Half(k) : k \in AmountInts }
        \cup { StrValue(t) : t \in AmountTexts }
        \cup { None, NaN, Inf, NegInf }

Digits == <<"0", "1", "2", "3", "4", "5", "6", "7", "8", "9">>

IsDigit(c) == \E d \in DOMAIN Digits : Digits[d] = c

DigitValue(c) == (CHOOSE d \in DOMAIN Digits : Digits[d] = c) - 1

RECURSIVE DecimalValue(_)

DecimalValue(text) ==
    IF text = <<>> THEN 0
    ELSE 10 * DecimalValue(SubSeq(text, 1, Len(text) - 1))
             + DigitValue(text[Len(text)])

IsDecimal(text) ==
    text # <<>> /\ \A i \in DOMAIN text : IsDigit(text[i])

ConversionError == [raised |-> "ValueError or TypeError"]

\* float(str), for a signed decimal integer, "nan", "inf" and a text that
\* is no number.
float_of_str(text) ==
    IF text = <<"n", "a", "n">> THEN NaN
    ELSE IF text = <<"i", "n", "f">> THEN Inf
    ELSE IF IsDecimal(text) THEN FromInt(DecimalValue(text))
    ELSE IF text # <<>> /\ Head(text) = "-" /\ IsDecimal(Tail(text))
         THEN FNeg(FromInt(DecimalValue(Tail(text))))
    ELSE ConversionError

\* float(amount)
float_of(value) ==
    IF value = None THEN ConversionError
    ELSE IF "str" \in DOMAIN value THEN float_of_str(value.str)
    ELSE IF "int" \in DOMAIN value THEN FromInt(value.int)
    ELSE value

\* float <= int, float < int, float > int: every comparison with nan is False
leq_int(x, k) ==
    IF x = NaN THEN FALSE
    ELSE IF x = Inf THEN FALSE
    ELSE IF x = NegInf THEN TRUE
    ELSE FLeq(x, FromInt(k))

less_int(x, k) ==
    IF x = NaN THEN FALSE
    ELSE IF x = Inf THEN FALSE
    ELSE IF x = NegInf THEN TRUE
    ELSE FLess(x, FromInt(k))

greater_int(x, k) ==
    IF x = NaN THEN FALSE
    ELSE IF x = Inf THEN TRUE
    ELSE IF x = NegInf THEN FALSE
    ELSE FLess(FromInt(k), x)

\* The reasons, without the currency sign of the last two.
NotANumber == "Investment amount must be a valid number"

NotPositive == "Investment amount must be positive"

BelowMinimum == "Investment amount must be at least 1,000.00"

AboveMaximum == "Investment amount cannot exceed 100,000,000.00"

Rejected(error_msg) == [is_valid |-> FALSE, error_msg |-> error_msg]

\* Rejects only what is no number.
accept_every_number(value) ==
    IF float_of(value) = ConversionError THEN Rejected(NotANumber)
    ELSE [is_valid |-> TRUE, error_msg |-> ""]

\* validate_investment_amount(amount)
validate_investment_amount(value) ==
    LET amount_float == float_of(value)
    IN  IF amount_float = ConversionError THEN Rejected(NotANumber)
        ELSE IF leq_int(amount_float, 0) THEN Rejected(NotPositive)
        ELSE IF less_int(amount_float, MIN_INVESTMENT_AMOUNT)
             THEN Rejected(BelowMinimum)
        ELSE IF greater_int(amount_float, MAX_INVESTMENT_AMOUNT)
             THEN Rejected(AboveMaximum)
        ELSE [is_valid |-> TRUE, error_msg |-> ""]

\* A call of validate_investment_amount from anywhere.
validate_call ==
    /\ pc = "validate"
    /\ validation' = validate_investment_amount(amount)
    /\ pc' = "validated"
    /\ UNCHANGED <<heap, input_vars, fetcher_vars, batch_vars, resolver_vars,
                   history_vars, securities_with_prices, fetch_summary,
                   portfolio, error, filter_vars, args, amount, calls,
                   exit_status, emit_vars,
                   securities_file, earlier_vars>>

InitValidate ==
    /\ pc = "validate"
    /\ amount \in Amounts
    /\ validation = None
    /\ args = None
    /\ calls = <<>>
    /\ exit_status = None
    /\ heap = <<>>
    /\ securities = <<>>
    /\ loaded = heap
    /\ yf = TRUE
    /\ total_investment = F100
    /\ securities_with_prices = <<>>
    /\ NothingFetched
    /\ NothingFiltered
    /\ NothingWritten

NextValidate == validate_call

SpecValidate == InitValidate /\ [][NextValidate]_vars

\* ---------------------------------------------------- claim on the validator
\* The amount as a number, where it is one.
IsNumber(value) ==
    /\ float_of(value) # ConversionError
    /\ IsFinite(float_of(value))

InRange(value) ==
    /\ IsNumber(value)
    /\ FLeq(FromInt(MIN_INVESTMENT_AMOUNT), float_of(value))
    /\ FLeq(float_of(value), FromInt(MAX_INVESTMENT_AMOUNT))

\* C14: validate_investment_amount accepts an amount exactly when it is a
\* number between MIN_INVESTMENT_AMOUNT and MAX_INVESTMENT_AMOUNT, both
\* included; a rejection carries a reason that is not empty and names its
\* cause, an acceptance the empty reason.
C14_AcceptedIffInRange ==
    pc = "validated" =>
        /\ validation.is_valid <=> InRange(amount)
        /\ ~validation.is_valid =>
               /\ validation.error_msg # ""
               /\ validation.error_msg = NotANumber
                      <=> float_of(amount) = ConversionError
               /\ validation.error_msg = AboveMaximum
                      <=> /\ float_of(amount) # ConversionError
                          /\ greater_int(float_of(amount),
                                         MAX_INVESTMENT_AMOUNT)
        /\ validation.is_valid => validation.error_msg = ""

\* ------------------------------------------------------ result files (emit)
MaxOrders == 41

\* batch_size = 20
batch_size == 20

\* What the steps that write the result files leave alone.
run_state ==
    <<heap, input_vars, fetcher_vars, batch_vars, resolver_vars, history_vars,
      securities_with_prices, fetch_summary, portfolio, filter_vars, main_vars,
      securities_file, earlier_vars>>

\* CSVHandler.save_portfolio_to_csv: the directory, the allocation file and
\* its summary file; a failure inside the try block is raised again as a
\* RuntimeError that carries the message of its cause.
save_portfolio_to_csv ==
    /\ pc = "done"
    /\ \E outcome \in {"written", "makedirs fails", "csv fails",
                       "summary fails"} :
          CASE outcome = "written" ->
                 /\ files' = files \cup {"csv", "summary"}
                 /\ pc' = "save_json"
                 /\ UNCHANGED <<error, write_failures>>
            [] outcome = "makedirs fails" ->
                 /\ error' = "OSError"
                 /\ pc' = "error"
                 /\ UNCHANGED <<files, write_failures>>
            [] outcome = "csv fails" ->
                 /\ write_failures' = write_failures \cup {"csv"}
                 /\ error' = "RuntimeError: Error writing CSV file: OSError"
                 /\ pc' = "error"
                 /\ UNCHANGED files
            [] outcome = "summary fails" ->
                 /\ files' = files \cup {"csv"}
                 /\ write_failures' = write_failures \cup {"summary"}
                 /\ error' = "RuntimeError: Error writing CSV file: OSError"
                 /\ pc' = "error"
    /\ UNCHANGED <<run_state, json_files>>

\* allocation.security.is_price_available() and allocation.shares_to_buy > 0
is_successful_allocation(allocation) ==
    is_price_available(heap[allocation.security])
        /\ allocation.shares_to_buy > 0

successful_allocations_of(allocation_results) ==
    SelectSeq(allocation_results, is_successful_allocation)

\* successful_allocations[i:i + batch_size] for i in range(0, len, batch_size)
batches_of(successful_allocations) ==
    LET n == Len(successful_allocations)
    IN  [b \in 1..((n + batch_size - 1) \div batch_size) |->
            SubSeq(successful_allocations, (b - 1) * batch_size + 1,
                   Min(b * batch_size, n))]

\* order_entry, as far as it depends on the allocation
order_entry(allocation) ==
    [symbol |-> heap[allocation.security].symbol,
     quantity |-> allocation.shares_to_buy]

json_data_of(batch) == [i \in DOMAIN batch |-> order_entry(batch[i])]

\* CSVHandler.save_portfolio_to_json: a batch whose file cannot be written
\* is logged and skipped.
save_portfolio_to_json ==
    /\ pc = "save_json"
    /\ \/ /\ error' = "OSError"
          /\ pc' = "error"
          /\ UNCHANGED <<json_files, write_failures>>
       \/ LET batches ==
                  batches_of(successful_allocations_of(
                                 portfolio.allocation_results))
          IN  \E written \in [DOMAIN batches -> BOOLEAN] :
                 /\ json_files' =
                        LET kept == SelectSeq([b \in DOMAIN batches |-> b],
                                              LAMBDA b : written[b])
                        IN  [k \in DOMAIN kept |-> json_data_of(batches[kept[k]])]
                 /\ write_failures' =
                        IF \E b \in DOMAIN batches : ~written[b]
                        THEN write_failures \cup {"json"}
                        ELSE write_failures
                 /\ pc' = "display"
                 /\ UNCHANGED error
    /\ UNCHANGED <<run_state, files>>

\* run(): _display_results_summary and return output_file
run_return ==
    /\ pc = "display"
    /\ pc' = "returned"
    /\ UNCHANGED <<run_state, emit_vars, error>>

\* Securities with no price, a price that buys several shares of a small
\* target and a price that a small target cannot pay.
F0_5 == [m |-> 1, e |-> -1]

EmitSecurities ==
    { Security(s, p, FALSE) : s \in Symbols, p \in {None, F0_5, F10} }

\* The allocator and the writers of the result files called on every list
\* that alternates between two securities.
InitEmit ==
    /\ pc = "allocate"
    /\ \E n \in 0..MaxOrders, odd \in EmitSecurities, even \in EmitSecurities :
          /\ heap = [i \in 1..n |-> IF i % 2 = 1 THEN odd ELSE even]
          /\ securities = [i \in 1..n |-> i]
    /\ yf = TRUE
    /\ loaded = heap
    /\ securities_with_prices = securities
    /\ total_investment = F100
    /\ NothingFetched
    /\ NothingFiltered
    /\ NotFromMain
    /\ NothingWritten

NextEmit ==
    \/ calculate_equal_weight_allocation
    \/ save_portfolio_to_csv
    \/ save_portfolio_to_json
    \/ run_return

SpecEmit == InitEmit /\ [][NextEmit]_vars

\* ------------------------------------------------ claims on the result files
RECURSIVE Flatten(_)

Flatten(seqs) ==
    IF seqs = <<>> THEN <<>> ELSE Head(seqs) \o Flatten(Tail(seqs))

JsonSaved == pc \in {"display", "returned", "exited"}

Qualifying ==
    SelectSeq(Results, LAMBDA r : Priced(r) /\ r.shares_to_buy > 0)

\* C16: the order-batch files hold one order for every allocation with an
\* available price and more than 0 shares, in portfolio order and with that
\* allocation's shares as quantity; every file holds at most 20 orders and
\* every file but the last exactly 20; no such allocation, no file.
C16_OrderBatches ==
    JsonSaved =>
        /\ Flatten(json_files) =
               [i \in DOMAIN Qualifying |->
                   [symbol |-> heap[Qualifying[i].security].symbol,
                    quantity |-> Qualifying[i].shares_to_buy]]
        /\ \A b \in DOMAIN json_files :
               /\ Len(json_files[b]) <= batch_size
               /\ b < Len(json_files) => Len(json_files[b]) = batch_size
        /\ Qualifying = <<>> => json_files = <<>>

\* ------------------------------------------------------------------ main()
MaxRunLoaded == 1

F1024 == [m |-> 1, e |-> 10]

\* --amount: not given, or a float (0, -3, 100, 1024).
ArgAmounts == {None, Zero, FNeg(F3), F100, F1024}

\* What the user types at the prompt of parse_user_input, as a float.
PromptAmounts == {F100, F1024}

\* The command lines, without --securities, --exclusion and --log-file.
CommandLines ==
    [amount : ArgAmounts, interactive : BOOLEAN, create_sample : BOOLEAN,
     create_exclusion_sample : BOOLEAN, download_constituents : BOOLEAN,
     hydratedata : BOOLEAN]

\* What main() leaves alone before it calls run().
before_run ==
    <<heap, input_vars, fetcher_vars, batch_vars, resolver_vars, history_vars,
      securities_with_prices, fetch_summary, portfolio, error, filter_vars,
      emit_vars,
      securities_file, earlier_vars>>

\* A mode of main() that does its work and returns; an exception of the
\* work ends the program with a traceback.
RunMode(name) ==
    /\ calls' = Append(calls, name)
    /\ exit_status' \in {0, 1}
    /\ pc' = "exited"
    /\ UNCHANGED <<before_run, args, amount, validation>>

\* if args.create_sample: create_sample_data(); return
main_create_sample ==
    /\ pc = "main"
    /\ args.create_sample
    /\ RunMode("create_sample_data")

\* if args.create_exclusion_sample: create_sample_exclusion_data(); return
main_create_exclusion_sample ==
    /\ pc = "main"
    /\ ~args.create_sample
    /\ args.create_exclusion_sample
    /\ RunMode("create_sample_exclusion_data")

\* if args.download_constituents is not None: download_constituents(); return
main_download_constituents ==
    /\ pc = "main"
    /\ ~args.create_sample
    /\ ~args.create_exclusion_sample
    /\ args.download_constituents
    /\ RunMode("download_constituents")

\* if args.hydratedata: hydrate_data(); return
main_hydrate_data ==
    /\ pc = "main"
    /\ ~args.create_sample
    /\ ~args.create_exclusion_sample
    /\ ~args.download_constituents
    /\ args.hydratedata
    /\ RunMode("hydrate_data")

\* Get investment amount: from the prompt (where Ctrl-C ends the program),
\* or from --amount.
main_get_amount ==
    /\ pc = "main"
    /\ ~args.create_sample
    /\ ~args.create_exclusion_sample
    /\ ~args.download_constituents
    /\ ~args.hydratedata
    /\ IF args.interactive \/ args.amount = None
       THEN /\ calls' = Append(calls, "parse_user_input")
            /\ \/ /\ amount' \in PromptAmounts
                  /\ pc' = "validate_amount"
                  /\ UNCHANGED exit_status
               \/ /\ exit_status' = 0
                  /\ pc' = "exited"
                  /\ UNCHANGED amount
       ELSE /\ amount' = args.amount
            /\ pc' = "validate_amount"
            /\ UNCHANGED <<calls, exit_status>>
    /\ UNCHANGED <<before_run, args, validation>>

\* Validate investment amount: print the reason and sys.exit(1), or go on.
main_validate_amount ==
    /\ pc = "validate_amount"
    /\ validation' = validate_investment_amount(amount)
    /\ IF validation'.is_valid
       THEN /\ pc' = "run"
            /\ UNCHANGED exit_status
       ELSE /\ exit_status' = 1
            /\ pc' = "exited"
    /\ UNCHANGED <<before_run, args, amount, calls>>

\* tracker.run(amount, None, None) up to the price fetch: the securities
\* file is loaded, or loading it raises.
run_load ==
    /\ pc = "run"
    /\ calls' = Append(calls, "run")
    /\ total_investment' = amount
    /\ \/ /\ error' \in {"FileNotFoundError", "ValueError"}
          /\ pc' = "error"
          /\ UNCHANGED <<heap, securities, loaded>>
       \/ /\ \E n \in 0..MaxRunLoaded :
                /\ heap' \in [1..n -> LoadedSecurity]
                /\ securities' = [i \in 1..n |-> i]
          /\ loaded' = heap'
          /\ pc' = "fetch_prices"
          /\ UNCHANGED error
    /\ UNCHANGED <<yf, fetcher_vars, batch_vars, resolver_vars, resolver_calls,
                   resolver_results, securities_with_prices, fetch_summary,
                   portfolio, filter_vars, emit_vars, securities_file, args,
                   amount, validation, exit_status, earlier_vars>>

\* main(): run() returned, the success message is printed.
main_report_success ==
    /\ pc = "returned"
    /\ calls' = Append(calls, "print: Index tracking completed successfully!")
    /\ exit_status' = 0
    /\ pc' = "exited"
    /\ UNCHANGED <<before_run, args, amount, validation>>

\* run() and main(): except Exception, print the message, sys.exit(1).
main_report_failure ==
    /\ pc = "error"
    /\ calls' = Append(calls, "print: Application failed")
    /\ exit_status' = 1
    /\ pc' = "exited"
    /\ UNCHANGED <<before_run, args, amount, validation>>

InitMain ==
    /\ pc = "main"
    /\ args \in CommandLines
    /\ amount = None
    /\ validation = None
    /\ calls = <<>>
    /\ exit_status = None
    /\ yf \in BOOLEAN
    /\ heap = <<>>
    /\ securities = <<>>
    /\ loaded = heap
    /\ total_investment = None
    /\ securities_with_prices = <<>>
    /\ NothingFetched
    /\ NothingFiltered
    /\ NothingWritten

NextMain ==
    \/ main_create_sample
    \/ main_create_exclusion_sample
    \/ main_download_constituents
    \/ main_hydrate_data
    \/ main_get_amount
    \/ main_validate_amount
    \/ run_load
    \/ Next
    \/ save_portfolio_to_csv
    \/ save_portfolio_to_json
    \/ run_return
    \/ main_report_success
    \/ main_report_failure

SpecMain == InitMain /\ [][NextMain]_vars

\* ------------------------------------------------------ claims on main()
\* An amount that is not positive or is below the minimum.
TooSmall(a) ==
    a # None /\ (FLeq(a, Zero) \/ FLess(a, FromInt(MIN_INVESTMENT_AMOUNT)))

Called(name) == \E i \in DOMAIN calls : calls[i] = name

RunStarted ==
    \/ Called("run")
    \/ pc \notin {"main", "validate_amount", "run", "exited"}

\* C15, as stated: once an amount that is not positive or is below the
\* minimum is supplied, on the command line or at the prompt, the program
\* downloads nothing, hydrates nothing and starts no run.
C15_NoStepOnceSupplied ==
    TooSmall(args.amount) \/ TooSmall(amount) =>
        /\ ~Called("download_constituents")
        /\ ~Called("hydrate_data")
        /\ ~RunStarted

\* C15, amended: when the amount main() validates is not positive or is
\* below the minimum, main() exits with status 1 and run() is never called:
\* nothing is loaded, fetched, allocated or written.
C15_RejectedBeforeRun ==
    TooSmall(amount) =>
        /\ ~RunStarted
        /\ \A i \in DOMAIN calls : calls[i] = "parse_user_input"
        /\ pc = "exited" => exit_status = 1 /\ ~validation.is_valid
        /\ heap = <<>> /\ resolver_calls = <<>> /\ portfolio = None
        /\ files = {} /\ json_files = <<>>

\* main() has rejected the amount typed at the prompt and has exited.
C15_Witness ==
    /\ pc = "exited"
    /\ TooSmall(amount)
    /\ Called("parse_user_input")
    /\ validation = Rejected(BelowMinimum)

\* ------------------------------------------------- loading a securities file
MaxRows == 3

\* SECURITY_CSV_HEADERS_NEW, SECURITY_CSV_HEADERS_OLD
SECURITY_CSV_HEADERS_NEW ==
    {"Company Name", "Industry", "Symbol", "Series", "ISIN Code"}

SECURITY_CSV_HEADERS_OLD ==
    {"symbol", "company_name", "isin", "market_cap", "weightage"}

\* The header lines of the files: each shape, each shape with a column
\* missing, each shape with further columns, and no header at all.
Fieldnames ==
    { {},
      SECURITY_CSV_HEADERS_NEW,
      SECURITY_CSV_HEADERS_OLD,
      SECURITY_CSV_HEADERS_NEW \ {"Series"},
      SECURITY_CSV_HEADERS_OLD \ {"weightage"},
      SECURITY_CSV_HEADERS_NEW \cup {"price", "pe_ratio"},
      SECURITY_CSV_HEADERS_OLD \cup {"price", "pe_ratio"},
      SECURITY_CSV_HEADERS_NEW \cup SECURITY_CSV_HEADERS_OLD,
      SECURITY_CSV_HEADERS_OLD \cup {"Symbol", "Company Name"} }

\* A line of the file: the cells of the symbol, company name, ISIN, market
\* cap, weightage, price and P/E columns, whatever the header calls them; a
\* line that ends early has None in the cells it lacks.
Row(sym, name, isin, market_cap, weightage, price_cell, pe_cell) ==
    [sym |-> sym, name |-> name, isin |-> isin, market_cap |-> market_cap,
     weightage |-> weightage, price |-> price_cell, pe_ratio |-> pe_cell]

Text(string) == [text |-> string]

RowA == Row(Text(<<"A">>), Text(<<"A", "l">>), Text(<<"I", "1">>),
            Text(<<"1">>), Text(<<"1">>), Text(<<>>), Text(<<>>))

RowB == Row(Text(<<" ", "B">>), Text(<<"B", "e">>), Text(<<>>),
            Text(<<>>), Text(<<>>), Text(<<"1", "0">>), Text(<<>>))

Rows ==
    { RowA, RowB,
      [RowA EXCEPT !.sym = Text(<<>>)],
      [RowA EXCEPT !.sym = Text(<<" ">>)],
      [RowA EXCEPT !.name = Text(<<>>)],
      [RowA EXCEPT !.market_cap = Text(<<"a", "b", "c">>)],
      [RowA EXCEPT !.weightage = Text(<<"-", "1">>)],
      [RowA EXCEPT !.weightage = Text(<<"a", "b", "c">>)],
      [RowA EXCEPT !.isin = None, !.market_cap = None, !.weightage = None,
                   !.price = None, !.pe_ratio = None],
      [RowA EXCEPT !.price = Text(<<"N", "/", "A">>), !.pe_ratio = Text(<<"5">>)],
      [RowA EXCEPT !.price = Text(<<"0">>)],
      [RowA EXCEPT !.price = Text(<<"a", "b", "c">>)] }

\* The cell of a row that a column of the header names.
CellName(column) ==
    CASE column \in {"symbol", "Symbol"} -> "sym"
      [] column \in {"company_name", "Company Name"} -> "name"
      [] column \in {"isin", "ISIN Code"} -> "isin"
      [] OTHER -> column

Raised(exception) == [raised |-> exception]

HasRaised(x) == "raised" \in DOMAIN x

\* row[column]: KeyError if the header has no such column.
Cell(fieldnames, row, column) ==
    IF column \in fieldnames THEN row[CellName(column)] ELSE Raised("KeyError")

\* str.strip
RECURSIVE strip(_)

strip(string) ==
    IF string # <<>> /\ Head(string) = " " THEN strip(Tail(string))
    ELSE IF string # <<>> /\ string[Len(string)] = " "
         THEN strip(SubSeq(string, 1, Len(string) - 1))
    ELSE string

\* row[column].strip(): AttributeError if the cell is None.
Stripped(cell) ==
    IF HasRaised(cell) THEN cell
    ELSE IF cell = None THEN Raised("AttributeError")
    ELSE Text(strip(cell.text))

\* float(row[column]) if row[column] else 0.0
FloatOrZero(cell) ==
    IF HasRaised(cell) THEN cell
    ELSE IF cell = None \/ cell.text = <<>> THEN Zero
    ELSE IF float_of_str(cell.text) = ConversionError THEN Raised("ValueError")
    ELSE float_of_str(cell.text)

\* Security(...) and Security.__post_init__, on the values that the cells
\* gave or on what reading a cell raised.
NewSecurity(symbol, company_name, isin, market_cap, weightage) ==
    IF HasRaised(symbol) \/ HasRaised(company_name) \/ HasRaised(isin)
           \/ HasRaised(market_cap) \/ HasRaised(weightage)
    THEN Raised("ValueError")
    ELSE IF symbol.text = <<>> \/ company_name.text = <<>>
                \/ FLess(weightage, Zero)
    THEN Raised("ValueError")
    ELSE [symbol |-> symbol.text, company_name |-> company_name.text,
          isin |-> isin.text,
          market_cap |-> market_cap, weightage |-> weightage,
          current_price |-> None, pe_ratio |-> None,
          data_loaded_from_csv |-> FALSE]

\* The value of a price or P/E cell that counts: a number above 0.
FinancialValue(fieldnames, row, column) ==
    LET cell == Cell(fieldnames, row, column)
    IN  IF column \notin fieldnames \/ cell = None THEN None
        ELSE IF cell.text = <<>> \/ cell.text = <<"N", "/", "A">> THEN None
        ELSE IF float_of_str(cell.text) = ConversionError THEN None
        ELSE IF greater_int(float_of_str(cell.text), 0)
             THEN float_of_str(cell.text)
        ELSE None

\* The shape a row is read in: 'Symbol' in row and 'Company Name' in row.
reads_new_format(fieldnames) ==
    "Symbol" \in fieldnames /\ "Company Name" \in fieldnames

\* CSVHandler._create_security_from_row
create_security_from_row(fieldnames, row) ==
    LET security ==
            IF reads_new_format(fieldnames)
            THEN NewSecurity(Stripped(Cell(fieldnames, row, "Symbol")),
                             Stripped(Cell(fieldnames, row, "Company Name")),
                             Stripped(Cell(fieldnames, row, "ISIN Code")),
                             Zero, FromInt(1))
            ELSE NewSecurity(Stripped(Cell(fieldnames, row, "symbol")),
                             Stripped(Cell(fieldnames, row, "company_name")),
                             Stripped(Cell(fieldnames, row, "isin")),
                             FloatOrZero(Cell(fieldnames, row, "market_cap")),
                             FloatOrZero(Cell(fieldnames, row, "weightage")))
        price_value == FinancialValue(fieldnames, row, "price")
        pe_value == FinancialValue(fieldnames, row, "pe_ratio")
    IN  IF HasRaised(security) THEN security
        ELSE [security EXCEPT
                 !.current_price = price_value,
                 !.pe_ratio = pe_value,
                 !.data_loaded_from_csv = price_value # None \/ pe_value # None]

\* CSVHandler._validate_security_headers
validate_security_headers(headers) ==
    /\ headers # {}
    /\ \/ SECURITY_CSV_HEADERS_NEW \subseteq headers
       \/ SECURITY_CSV_HEADERS_OLD \subseteq headers

\* The Security objects of the rows that raise nothing, in file order.
RECURSIVE securities_of(_, _)

securities_of(fieldnames, rows) ==
    IF rows = <<>> THEN <<>>
    ELSE LET security == create_security_from_row(fieldnames, Head(rows))
         IN  IF HasRaised(security) THEN securities_of(fieldnames, Tail(rows))
             ELSE <<security>> \o securities_of(fieldnames, Tail(rows))

\* CSVHandler.load_securities_from_csv(file_path), and run()'s assignment
\* of what it returns to securities.
load_securities_from_csv ==
    /\ pc = "load"
    /\ IF ~securities_file.exists
       THEN /\ error' = "FileNotFoundError"
            /\ pc' = "error"
            /\ UNCHANGED <<heap, securities, loaded>>
       ELSE IF ~validate_security_headers(securities_file.fieldnames)
       THEN /\ error' = "ValueError: Invalid CSV headers"
            /\ pc' = "error"
            /\ UNCHANGED <<heap, securities, loaded>>
       ELSE /\ heap' = securities_of(securities_file.fieldnames,
                                     securities_file.rows)
            /\ securities' = [i \in DOMAIN heap' |-> i]
            /\ loaded' = heap'
            /\ pc' = "loaded"
            /\ UNCHANGED error
    /\ UNCHANGED <<yf, total_investment, fetcher_vars, batch_vars,
                   resolver_vars, resolver_calls, resolver_results,
                   securities_with_prices, fetch_summary, portfolio,
                   filter_vars, main_vars, emit_vars,
                   securities_file, earlier_vars>>

\* Every securities file: missing, or a header line and up to longest rows.
SecuritiesFiles(longest) ==
    { [exists |-> FALSE] }
        \cup { [exists |-> TRUE, fieldnames |-> h, rows |-> r] :
                 h \in Fieldnames,
                 r \in UNION { [1..k -> Rows] : k \in 0..longest } }

InitLoad ==
    /\ pc = "load"
    /\ securities_file \in SecuritiesFiles(MaxRows)
    /\ heap = <<>>
    /\ securities = <<>>
    /\ loaded = heap
    /\ yf = TRUE
    /\ total_investment = F100
    /\ securities_with_prices = <<>>
    /\ NothingFetched
    /\ NothingFiltered
    /\ NotFromMain
    /\ files = {}
    /\ json_files = <<>>
    /\ write_failures = {}

NextLoad == load_securities_from_csv

SpecLoad == InitLoad /\ [][NextLoad]_vars

\* ---------------------------------------------------- claim on the loading
\* The shape whose full column set the header holds, the new one first.
AcceptedShape(h) ==
    IF SECURITY_CSV_HEADERS_NEW \subseteq h THEN "new"
    ELSE IF SECURITY_CSV_HEADERS_OLD \subseteq h THEN "old"
    ELSE "none"

Filled(cell) == cell # None /\ strip(cell.text) # <<>>

Numeric(cell) ==
    cell = None \/ cell.text = <<>> \/ float_of_str(cell.text) # ConversionError

\* A row that is well-formed in the shape of its file.
WellFormed(shape, row) ==
    /\ Filled(row.sym)
    /\ Filled(row.name)
    /\ row.isin # None
    /\ shape = "old" =>
          /\ Numeric(row.market_cap)
          /\ Numeric(row.weightage)
          /\ ~FLess(FloatOrZero(row.weightage), Zero)

WellFormedRows ==
    SelectSeq(securities_file.rows,
              LAMBDA row : WellFormed(AcceptedShape(securities_file.fieldnames),
                                      row))

\* C17: a file whose header holds neither the full new nor the full legacy
\* column set fails before any Security is built; with an accepted header
\* the loaded list has, in file order, one Security for every well-formed
\* row and none for a malformed row.
C17_HeaderFatalRowsSkipped ==
    /\ pc = "error" /\ securities_file # None => heap = <<>>
    /\ pc \in {"loaded", "error"} /\ securities_file.exists =>
          IF AcceptedShape(securities_file.fieldnames) = "none"
          THEN pc = "error" /\ heap = <<>>
          ELSE /\ pc = "loaded"
               /\ Len(securities) = Len(WellFormedRows)
               /\ \A i \in DOMAIN WellFormedRows :
                      /\ heap[securities[i]].symbol
                             = strip(WellFormedRows[i].sym.text)
                      /\ heap[securities[i]].company_name
                             = strip(WellFormedRows[i].name.text)
                      /\ heap[securities[i]].isin
                             = strip(WellFormedRows[i].isin.text)

\* ------------------------------------------------- claims on a whole run
ReportedSuccess == Called("print: Index tracking completed successfully!")

\* C18: once the writing of the allocation file, of its summary or of an
\* order-batch file has failed, the run goes on to no further step, ends
\* with an error that carries the cause, and main() exits with status 1
\* without the success message.
C18_WriteFailureIsFatal ==
    write_failures # {} =>
        /\ pc \in {"error", "exited"}
        /\ error \in {"RuntimeError: Error writing CSV file: OSError", "OSError"}
        /\ ~ReportedSuccess
        /\ pc = "exited" => exit_status = 1

PreHydrated == SelectSeq(securities, Trusted)

Occurrences(seq, x) == Cardinality({i \in DOMAIN seq : seq[i] = x})

\* C19: what a batch price resolution returns holds every security of its
\* input once; the pre-hydrated ones are in their input order and so are
\* the ones that needed resolution.
C19_BatchKeepsEachOnce ==
    BatchReturned =>
        /\ Len(securities_with_prices) = Len(securities)
        /\ \A i \in DOMAIN securities :
               Occurrences(securities_with_prices, securities[i]) = 1
        /\ SelectSeq(securities_with_prices, Trusted) = PreHydrated
        /\ SelectSeq(securities_with_prices, LAMBDA id : ~Trusted(id))
               = NeedResolution

\* The batch has returned two securities that both needed resolution, one
\* resolved and one not.
C19_Witness ==
    /\ BatchReturned
    /\ securities_with_prices = <<1, 2>>
    /\ NeedResolution = <<1, 2>>
    /\ resolver_results[1] = None
    /\ resolver_results[2] # None

\* C20, as stated: the i-th result of the Portfolio refers to the i-th
\* security of the loaded list.
C20_ResultsInLoadedOrder ==
    Allocated =>
        /\ Len(Results) = Len(securities)
        /\ \A i \in DOMAIN Results : Results[i].security = securities[i]

\* C20, amended: the Portfolio has one result for every security of the
\* loaded list, the pre-hydrated securities first and then the others, each
\* group in the order of the list; it is in the order of the list when no
\* pre-hydrated security follows one that is not.
C20_ResultsInBatchOrder ==
    Allocated =>
        /\ Len(Results) = Len(securities)
        /\ \A i \in DOMAIN Results :
               Results[i].security = (PreHydrated \o NeedResolution)[i]
        /\ (\A i, j \in DOMAIN securities :
               i < j /\ Trusted(securities[j]) => Trusted(securities[i]))
             => \A i \in DOMAIN Results : Results[i].security = securities[i]

\* The loaded list has a security without a price before a pre-hydrated
\* one, and the Portfolio has them the other way round.
C20_Witness ==
    /\ Allocated
    /\ securities = <<1, 2>>
    /\ ~Trusted(1)
    /\ Trusted(2)
    /\ Results[1].security = 2
    /\ Results[2].security = 1

\* ------------------------------------------- batches of one PriceFetcher
\* Longest security list of one batch among several, and how many further
\* batches one PriceFetcher runs.
MaxBatchSecurities == 1

MaxBatches == 2

\* Nifty100Tracker.run called again on the same tracker: self.price_fetcher
\* is the PriceFetcher of the run before, the securities are loaded afresh.
fetch_prices_batch_again ==
    /\ pc = "allocate"
    /\ batch_calls < MaxBatches
    /\ batch_calls' = batch_calls + 1
    /\ previous_summary' = fetch_summary
    /\ \E n \in 0..MaxBatchSecurities :
          /\ heap' \in [1..n -> LoadedSecurity]
          /\ securities' = [i \in 1..n |-> i]
    /\ loaded' = heap'
    /\ resolver_calls' = <<>>
    /\ resolver_results' = <<>>
    /\ securities_with_prices' = <<>>
    /\ fetch_summary' = None
    /\ pc' = "fetch_prices"
    /\ UNCHANGED <<yf, total_investment, fetcher_vars, batch_vars,
                   resolver_vars, portfolio, error, filter_vars, main_vars,
                   emit_vars, securities_file, previous_run>>

InitBatches ==
    /\ pc = "fetch_prices"
    /\ yf \in BOOLEAN
    /\ \E n \in 0..MaxBatchSecurities :
          /\ heap \in [1..n -> LoadedSecurity]
          /\ securities = [i \in 1..n |-> i]
    /\ loaded = heap
    /\ total_investment = F100
    /\ securities_with_prices = <<>>
    /\ NothingFetched
    /\ NothingFiltered
    /\ NotFromMain
    /\ NothingWritten

NextBatches ==
    \/ fetch_prices_batch_begin
    \/ fetch_price_call
    \/ query_suffixed
    \/ query_bare
    \/ retry_sleep
    \/ record_fetched
    \/ fetch_prices_batch_end
    \/ get_fetch_summary
    \/ fetch_prices_batch_again

SpecBatches == InitBatches /\ [][NextBatches]_vars

\* C21: the fetch summary is call-scoped: after any sequence of batches on
\* the same PriceFetcher, its total, successful count, failed count and
\* failed-symbol list are those of the most recent batch alone (loaded,
\* resolver_calls and resolver_results are the history of that batch).
C21_SummaryIsCallScoped ==
    SummaryRead =>
        /\ fetch_summary.total_securities = Len(securities)
        /\ fetch_summary.successful_fetches =
               Cardinality(TrustedIds) + Cardinality(LiveOk)
        /\ fetch_summary.failed_securities = Cardinality(LiveFailed)
        /\ fetch_summary.failed_symbols = FailedSymbols(Len(resolver_results))

\* C21 witness: the summary of a batch without failure is read after a
\* batch of the same PriceFetcher that had a failed symbol and a success.
C21_Witness ==
    /\ SummaryRead
    /\ batch_calls = 2
    /\ previous_summary # None
    /\ previous_summary.failed_symbols # <<>>
    /\ fetch_summary.failed_symbols = <<>>
    /\ fetch_summary.successful_fetches = 1
    /\ fetch_summary.total_securities = 1

\* ------------------------------------------ the allocator and the weightage
\* Longest security list allocated twice.
MaxWeighted == 2

\* Index weightages (0 and 3 per cent) and market capitalisations.
Weightages == {Zero, F3}

MarketCaps == {Zero, F100}

\* Security with the fields the index gives it: market_cap and weightage.
WeightedSecurity(current_price, market_cap, weightage) ==
    [symbol |-> <<"A">>, current_price |-> current_price,
     data_loaded_from_csv |-> FALSE,
     market_cap |-> market_cap, weightage |-> weightage]

WeightedSecurities ==
    { WeightedSecurity(p, m, w) :
        p \in {None, F3}, m \in MarketCaps, w \in Weightages }

\* A second call of calculate_equal_weight_allocation, with the same
\* investment, on securities that differ from those of the first call by
\* their market_cap and weightage only.
allocate_again ==
    /\ pc = "done"
    /\ previous_run = None
    /\ previous_run' = [heap |-> heap, portfolio |-> portfolio]
    /\ \E m \in [DOMAIN heap -> MarketCaps], w \in [DOMAIN heap -> Weightages] :
          heap' = [id \in DOMAIN heap |->
                      [heap[id] EXCEPT !.market_cap = m[id],
                                       !.weightage = w[id]]]
    /\ portfolio' = None
    /\ pc' = "allocate"
    /\ UNCHANGED <<input_vars, fetcher_vars, batch_vars, resolver_vars,
                   history_vars, securities_with_prices, fetch_summary, error,
                   filter_vars, main_vars, emit_vars, securities_file,
                   batch_calls, previous_summary>>

InitWeights ==
    /\ pc = "allocate"
    /\ \E n \in 0..MaxWeighted :
          /\ heap \in [1..n -> WeightedSecurities]
          /\ securities = [i \in 1..n |-> i]
    /\ yf = TRUE
    /\ loaded = heap
    /\ securities_with_prices = securities
    /\ total_investment = F100
    /\ NothingFetched
    /\ NothingFiltered
    /\ NotFromMain
    /\ NothingWritten

NextWeights ==
    \/ calculate_equal_weight_allocation
    \/ allocate_again

SpecWeights == InitWeights /\ [][NextWeights]_vars

\* What the claim compares of one position.
Position(r) ==
    [target_allocation_pct |-> r.target_allocation_pct,
     target_amount |-> r.target_amount,
     shares_to_buy |-> r.shares_to_buy,
     actual_allocation_amount |-> r.actual_allocation_amount,
     actual_allocation_pct |-> r.actual_allocation_pct,
     unallocated_amount |-> r.unallocated_amount]

\* C22: two allocations with the same investment over lists that agree on
\* order and prices but differ in weightage or market_cap give every
\* position the same target, share count, actual amount and unallocated
\* amount.
C22_WeightageIgnored ==
    (Allocated /\ previous_run # None) =>
        /\ Len(Results) = Len(previous_run.portfolio.allocation_results)
        /\ \A i \in DOMAIN Results :
              Position(Results[i])
                  = Position(previous_run.portfolio.allocation_results[i])

\* C22 witness: both allocations are done, a security that gets shares had
\* another weightage and another market_cap the first time, and the two
\* securities of the list do not have the same weightage.
C22_Witness ==
    /\ Allocated
    /\ previous_run # None
    /\ Len(Results) = 2
    /\ Results[1].shares_to_buy > 0
    /\ heap[1].weightage # previous_run.heap[1].weightage
    /\ heap[1].market_cap # previous_run.heap[1].market_cap
    /\ heap[1].weightage # heap[2].weightage

\* ------------------------------------------------- fetch_price on its own
\* Largest value of retries passed to fetch_price.
MaxRetries == 3

\* fetch_price(symbol, retries) called from outside a batch, up to the first
\* query.
fetch_price_with_retries ==
    /\ pc = "resolve"
    /\ \E s \in Symbols, r \in 0..MaxRetries :
          /\ symbol_arg' = s
          /\ retries' = r
    /\ queries' = <<>>
    /\ IF yf
       THEN /\ attempt' = 0
            /\ pc' = "query"
            /\ UNCHANGED price
       ELSE /\ price' = None
            /\ pc' = "fetched"
            /\ UNCHANGED attempt
    /\ UNCHANGED <<heap, input_vars, stage_vars, fetcher_vars, batch_vars,
                   last_response, history_vars, securities_with_prices,
                   fetch_summary, portfolio, error>>

\* The return of fetch_price to a caller that is not fetch_prices_batch.
fetch_price_return ==
    /\ pc = "fetched"
    /\ securities_to_fetch = <<>>
    /\ pc' = "resolved"
    /\ UNCHANGED <<heap, input_vars, stage_vars, fetcher_vars, batch_vars,
                   resolver_vars, history_vars, securities_with_prices,
                   fetch_summary, portfolio, error>>

\* Either one call of fetch_price with any symbol and any retries, or one
\* batch over freshly loaded securities.
InitResolver ==
    /\ pc \in {"resolve", "fetch_prices"}
    /\ yf \in BOOLEAN
    /\ \E n \in 0..MaxBatchSecurities :
          /\ heap \in [1..n -> LoadedSecurity]
          /\ securities = [i \in 1..n |-> i]
          /\ pc = "resolve" => n = 0
    /\ loaded = heap
    /\ total_investment = F100
    /\ securities_with_prices = <<>>
    /\ NothingFetched
    /\ NothingFiltered
    /\ NotFromMain
    /\ NothingWritten

NextResolver ==
    \/ fetch_price_with_retries
    \/ fetch_price_return
    \/ fetch_prices_batch_begin
    \/ fetch_price_call
    \/ query_suffixed
    \/ query_bare
    \/ retry_sleep
    \/ record_fetched
    \/ fetch_prices_batch_end
    \/ get_fetch_summary

SpecResolver == InitResolver /\ [][NextResolver]_vars

\* The program is one thread that runs on, and every query of the quote
\* source returns or raises.
FairResolver == SpecResolver /\ WF_vars(NextResolver)

\* ------------------------------------------------- claims on fetch_price
\* fetch_price is running: before a query, or asleep between two attempts.
Resolving == pc \in {"query", "query_bare", "sleep"}

\* The step is a query of the quote source, answered with answer.
Answered(answer) ==
    /\ pc \in {"query", "query_bare"}
    /\ last_response' = answer

NoData == [kind |-> "nodata"]

Error == [kind |-> "error"]

Data(close) == [kind |-> "data", close |-> close]

\* C23: for a symbol given without the .NS suffix, a suffixed query that
\* returns no data is followed in the same attempt by a query of the symbol
\* as given, and a positive close of that query is returned at once, with
\* no further attempt and no sleep.
C23_BareFallbackInSameAttempt ==
    [][/\ (pc = "query" /\ ~EndsWithNS(symbol_arg) /\ Answered(NoData))
            => /\ pc' = "query_bare"
               /\ attempt' = attempt
       /\ \A close \in Closes :
             (pc = "query_bare" /\ ~EndsWithNS(symbol_arg)
                 /\ close.m > 0 /\ Answered(Data(close)))
                => /\ queries' = <<yf_symbol(symbol_arg), symbol_arg>>
                   /\ price' = close
                   /\ pc' = "fetched"
                   /\ attempt' = attempt]_vars

\* C24: when a query (suffixed or bare) raises during an attempt that is not
\* the last, the resolver sleeps once and then runs the whole attempt again,
\* from the suffixed query; when it raises during the last attempt (number
\* retries + 1) the resolver returns not-found without sleeping; and there
\* are never more than retries + 1 attempts (attempt counts from 0).
C24_ErrorSleepsThenRetries ==
    [][/\ Answered(Error) =>
             IF attempt < retries
             THEN pc' = "sleep" /\ attempt' = attempt
             ELSE pc' = "fetched" /\ price' = None
       /\ pc = "sleep" =>
             /\ pc' = "query"
             /\ attempt' = attempt + 1
             /\ queries' = <<>>
       /\ Resolving => attempt <= retries]_vars

\* C24 witness: the last of three attempts of a symbol with the suffix
\* starts, after the sleep that followed an error.
C24_Witness ==
    /\ pc = "query"
    /\ retries = 2
    /\ attempt = 2
    /\ EndsWithNS(symbol_arg)
    /\ queries = <<>>
    /\ last_response = Error

\* The suffixed query, answered with answer, can lead to position next_pc
\* of attempt next_attempt.
SuffixedLeads(answer, next_pc, next_attempt) ==
    ENABLED (/\ query_suffixed
             /\ last_response' = answer
             /\ pc' = next_pc
             /\ attempt' = next_attempt)

\* C25: a close that is not positive is handled as no data is: after the
\* suffixed query the resolver goes on to the same query, attempt, sleep or
\* return as it does after no data, so the fallback query of the other form
\* of the symbol follows whenever it follows no data; and the close that is
\* not positive is never returned.
C25_InvalidCloseAsNoData ==
    /\ pc = "query" =>
          \A close \in Closes : close.m <= 0 =>
              \A next_pc \in {"query", "query_bare", "sleep", "fetched"} :
                  \A next_attempt \in 0..(MaxRetries + 1) :
                      SuffixedLeads(Data(close), next_pc, next_attempt)
                          <=> SuffixedLeads(NoData, next_pc, next_attempt)
    /\ pc = "fetched" => (price = None \/ price.m > 0)

\* fetch_price has returned to its caller outside a batch, or the batch has
\* returned (and its summary is read) or has raised.
Terminated == pc \in {"resolved", "allocate", "error"}

\* C27: the resolver always terminates.  For every symbol, every retries
\* >= 0 and every sequence of answers, fetch_price returns after at most
\* retries + 1 attempts (attempt counts from 0, and within a call it only
\* ever grows by one), at most 2 queries per attempt, and at most retries
\* sleeps (every sleep starts one of the at most retries further attempts);
\* and a batch ends having called the resolver exactly once for every
\* security that needs resolution.
C27_ResolverTerminates ==
    /\ [](Resolving => (attempt <= retries /\ Len(queries) <= 2))
    /\ [](pc = "fetched" => Len(queries) <= 2)
    /\ [][Resolving =>
             /\ attempt' = attempt \/ attempt' = attempt + 1
             /\ pc = "sleep" => attempt' = attempt + 1]_vars
    /\ [](BatchReturned => resolver_calls = NeedResolution)
    /\ <>Terminated

\* C27 witness: a call with retries = 3 returns not-found from its fourth
\* attempt, in which it made two queries.
C27_Witness ==
    /\ pc = "resolved"
    /\ retries = 3
    /\ attempt = 3
    /\ Len(queries) = 2
    /\ price = None

\* C28: a further attempt starts only after an attempt in which a query
\* raised, and only after the sleep; an attempt that ends without error and
\* without a valid price (no data, or a close that is not positive) ends the
\* call with not-found.
C28_RetryOnlyAfterError ==
    [][/\ (Resolving /\ attempt' = attempt + 1) =>
             (pc = "sleep" /\ last_response = Error)
       /\ (Answered(last_response') /\ last_response' # Error
               /\ pc' # "query_bare"
               /\ ~(pc' = "fetched" /\ price' # None)) =>
             (pc' = "fetched" /\ price' = None)]_vars

\* ------------------------------------------------------ models/portfolio.py
\* float + float.
FAdd(a, b) ==
    LET lo == Min(a.e, b.e)
    IN  Round(a.m * Pow2(a.e - lo) + b.m * Pow2(b.e - lo), 1, lo)

RECURSIVE sum_of(_, _)
\* sum(...) over the first k results: starts from 0 and adds from the left,
\* rounding after every addition.
sum_of(amounts, k) ==
    IF k = 0 THEN Zero ELSE FAdd(sum_of(amounts, k - 1), amounts[k])

\* Portfolio.total_allocated_amount
total_allocated_amount(results) ==
    sum_of([i \in DOMAIN results |-> results[i].actual_allocation_amount],
           Len(results))

\* Portfolio.total_unallocated_amount
total_unallocated_amount(results) ==
    sum_of([i \in DOMAIN results |-> results[i].unallocated_amount],
           Len(results))

\* Portfolio.successful_allocations
successful_allocations(results) ==
    Cardinality({i \in DOMAIN results :
                    is_price_available(heap[results[i].security])})

\* Portfolio.failed_allocations
failed_allocations(results) ==
    Cardinality({i \in DOMAIN results :
                    ~is_price_available(heap[results[i].security])})

\* get_summary_stats()["utilization_rate"]
utilization_rate(results, total) ==
    IntMulF(100, FDiv(total_allocated_amount(results), total))

\* C26: conservation of cash.  In every Portfolio of the allocator each
\* result has actual_allocation_amount + unallocated_amount = target_amount,
\* the total allocated plus the total unallocated is total_investment, the
\* total allocated is at most total_investment (utilization at most 100),
\* and the successful and failed counts add up to the number of results.
C26_CashConserved ==
    Allocated =>
        /\ \A i \in DOMAIN Results :
              FAdd(Results[i].actual_allocation_amount,
                   Results[i].unallocated_amount) = Results[i].target_amount
        /\ FAdd(total_allocated_amount(Results),
                total_unallocated_amount(Results)) = total_investment
        /\ FLeq(total_allocated_amount(Results), total_investment)
        /\ FLeq(utilization_rate(Results, total_investment), FromInt(100))
        /\ successful_allocations(Results) + failed_allocations(Results)
               = Len(Results)

\* ------------------------------------------- the two notions of success
\* The symbols of the results whose security has no available price, in
\* the order of the results.
UnpricedSymbols ==
    LET unpriced == SelectSeq(Results, LAMBDA r : ~Priced(r))
    IN  [i \in DOMAIN unpriced |-> heap[unpriced[i].security].symbol]

\* C29: after load, filter, price resolution and allocation the two
\* notions of success agree: the Portfolio's count of securities with an
\* available price is the summary's successful count, its count without is
\* the summary's failed count, and the failed-symbol list holds one entry
\* for each security whose result has no available price, and no other.
C29_SuccessNotionsAgree ==
    pc = "done" =>
        /\ successful_allocations(Results) = fetch_summary.successful_fetches
        /\ failed_allocations(Results) = fetch_summary.failed_securities
        /\ fetch_summary.failed_symbols = UnpricedSymbols

\* C29 witness: a run allocated two securities with the same symbol, one
\* priced by the CSV file and one whose resolution failed.
C29_Witness ==
    /\ pc = "done"
    /\ Len(Results) = 2
    /\ heap[1].symbol = heap[2].symbol
    /\ Cardinality(TrustedIds) = 1
    /\ fetch_summary.failed_symbols = <<heap[2].symbol>>
    /\ successful_allocations(Results) = 1

\* ----------------------------------------- the filter and the empty ISIN
\* Securities of minimal records: the ISIN cell of a row may be empty, and
\* _create_security_from_row passes it on as the empty string.
MinimalSecurities ==
    { ListedSecurity(s, i) : s \in {<<"A">>, <<"B">>}, i \in {"", "INE1"} }

\* The securities an exclusion file of minimal records lists.
MinimalExclusions ==
    { ListedSecurity(<<"B">>, ""), ListedSecurity(<<"B">>, "INE2") }

\* Calls of the filter on securities and exclusions that may have no ISIN.
InitIsin ==
    /\ pc = "filter"
    /\ \E n \in 0..MaxFiltered :
          /\ heap \in [1..n -> MinimalSecurities]
          /\ securities = [i \in 1..n |-> i]
    /\ exclusion_file \in
          { [exists |-> FALSE] }
              \cup { [exists |-> TRUE, securities |-> e] :
                       e \in UNION { [1..k -> MinimalExclusions] :
                                        k \in 0..MaxExcluded } }
    /\ excluded_count = 0
    /\ filter_results = <<>>
    /\ yf = TRUE
    /\ loaded = heap
    /\ total_investment = F100
    /\ securities_with_prices = <<>>
    /\ NothingFetched
    /\ NotFromMain
    /\ NothingWritten

NextIsin == filter_excluded_securities

SpecIsin == InitIsin /\ [][NextIsin]_vars

\* C30: a security whose ISIN is empty is removed by the filter only when
\* its upper-cased symbol is the upper-cased symbol of an exclusion: an
\* exclusion with an empty ISIN removes no security with an empty ISIN and
\* another symbol.
C30_EmptyIsinMatchesNothing ==
    \A k \in DOMAIN filter_results :
        LET r == filter_results[k]
        IN  \A i \in DOMAIN r.securities :
                LET id == r.securities[i]
                IN  (heap[id].isin = "" /\ Removed(r, id)) => SymbolMatch(id)
====
